---- MODULE Spec2Model ----
(***************************************************************************)
(* AgriBridge backend (src/main.py, src/schemas.py): five document         *)
(* collections behind create/list endpoints and three aggregation          *)
(* endpoints.  The state is the store's collections, the module-level      *)
(* handle `db`, and the last request with its response.                    *)
(***************************************************************************)
EXTENDS Integers, Sequences, FiniteSets, TLC

VARIABLES db, farmer, buyer, product, order, route, nextId, call

vars == <<db, farmer, buyer, product, order, route, nextId, call>>

(* ------------------------------ bounds --------------------------------- *)

MaxDocs == 2
MaxProducts == 3
MaxFarmers == 2
MaxOrders == 3
MaxItems == 3
MaxQty == 2
MaxPrice == 2
MaxLimit == 2

(* ------------------------- values and options -------------------------- *)

\* Optional[T]: None is <<>>, a supplied value v is <<v>>.
None == <<>>
Some(v) == <<v>>
Opt(S) == {None} \cup {Some(v) : v \in S}

\* Python truth value of an Optional[str]: None and "" are both falsy.
Truthy(o) == o # None /\ o[1] # ""

\* `x is not None`
IsNotNone(o) == o # None

Min(a, b) == IF a <= b THEN a ELSE b

SeqsUpTo(S, n) == UNION {[1..k -> S] : k \in 0..n}

Range(s) == {s[i] : i \in 1..Len(s)}

\* An ObjectId and its str(): the store's identifiers are ObjectIds, the
\* references held by documents and returned to callers are their strings.
Digits == <<"0", "1", "2", "3", "4", "5", "6", "7", "8", "9">>

ObjectId(n) == [oid |-> n]

RECURSIVE IntToStr(_)
IntToStr(n) == IF n < 10 THEN Digits[n + 1]
               ELSE IntToStr(n \div 10) \o Digits[(n % 10) + 1]

Str(fid) == IntToStr(fid.oid)

(* ------------------------------ schemas -------------------------------- *)

\* Field(..., ge=0) on Product.price and Product.available_quantity.
ValidProduct(p) == p.price >= 0 /\ p.available_quantity >= 0

\* An item check with ge=0 on the quantity.
ValidOrderItemAllowingZero(i) == i.quantity >= 0 /\ i.price >= 0

\* Field(..., gt=0) on OrderItem.quantity, Field(..., ge=0) on OrderItem.price.
ValidOrderItem(i) == i.quantity > 0 /\ i.price >= 0

ValidOrder(p) == \A k \in 1..Len(p.items) : ValidOrderItem(p.items[k])

\* Declared defaults: Order.status = "pending", Route.cold_chain = False.
OrderStatus(p) == IF p.status = None THEN "pending" ELSE p.status[1]

RouteColdChain(p) == IF p.cold_chain = None THEN FALSE ELSE p.cold_chain[1]

(* --------------------------- the store handle -------------------------- *)

\* `db` of the database module: None when the store is not configured.
DbHandles == [available : BOOLEAN]

\* `if db` / `if not db`: the handle's truth value.
DbTruthy(d) == d.available

\* create_document(collection, payload): one insert, the new id as a string.
Insert(coll, doc) == Append(coll, doc)

\* Filter clauses: {field: v} and {field: {"$in": [...]}}.
Eq(v) == [op |-> "eq", v |-> v]
In(vs) == [op |-> "in", v |-> vs]

ClauseHolds(c, x) == IF c.op = "eq" THEN x = c.v ELSE x \in Range(c.v)

Matches(d, filt) ==
    \A k \in DOMAIN filt : k \in DOMAIN d /\ ClauseHolds(filt[k], d[k])

\* Collection.find(filter): the matching documents in insertion order.
Find(coll, filt) == SelectSeq(coll, LAMBDA d : Matches(d, filt))

\* get_documents(collection, filter)
get_documents(coll, filt) == Find(coll, filt)

\* filt[key] = clause on a dict: sets or replaces the key's clause.
SetKey(filt, k, c) == (k :> c) @@ filt

EmptyFilter == [k \in {} |-> Eq("")]

(* ------------------------------ responses ------------------------------ *)

Ok(opname, args, value) ==
    [op |-> opname, args |-> args, status |-> "ok", exc |-> "", value |-> value]

Raised(opname, args, status, exc) ==
    [op |-> opname, args |-> args, status |-> status, exc |-> exc, value |-> <<>>]

NoCall == [op |-> "none", args |-> <<>>, status |-> "ok", exc |-> "", value |-> <<>>]

TotalDocs == Len(farmer) + Len(buyer) + Len(product) + Len(order) + Len(route)

(* ------------------------- request payloads ---------------------------- *)

FarmerPayloads == [region : {"north", "south"}]

BuyerPayloads == [type : {"retailer", "exporter"}]

ProductPayloads ==
    [farmer_id : {"1"}, category : {"veg"}, price : {-1, 0},
     available_quantity : {-1, 0}]

ItemPayload(quantity, price) ==
    [product_id |-> "p1", quantity |-> quantity, price |-> price]

ItemListPayloads ==
    {<<>>, <<ItemPayload(1, 0)>>, <<ItemPayload(1, 0), ItemPayload(0, 0)>>,
     <<ItemPayload(1, -1)>>}

OrderPayloads ==
    [buyer_id : {"b1", "b2"}, status : Opt({"delivered"}), items : ItemListPayloads]

RoutePayloads == [date : {"d1", "d2"}, cold_chain : Opt(BOOLEAN)]

\* Query-parameter values.
RegionParams == Opt({"", "north"})
TypeParams == Opt({"", "retailer"})
FarmerIdParams == Opt({"2"})
CategoryParams == Opt({"", "veg"})
BuyerIdParams == Opt({"", "b1"})
StatusParams == Opt({"", "pending"})
DateParams == Opt({"", "d1"})
ColdChainParams == Opt(BOOLEAN)
LimitParams == 0..MaxLimit

(* --------------------------- create endpoints -------------------------- *)

\* create_document on an unavailable store raises; otherwise one insert.
NewId == ObjectId(nextId)

WithId(fields) == ("_id" :> NewId) @@ fields

create_farmer(payload) ==
    /\ db.available => TotalDocs < MaxDocs
    /\ IF ~db.available
       THEN /\ call' = Raised("create_farmer", payload, "error", "StoreError")
            /\ UNCHANGED <<farmer, nextId>>
       ELSE /\ farmer' = Insert(farmer, WithId([region |-> payload.region]))
            /\ nextId' = nextId + 1
            /\ call' = Ok("create_farmer", payload, [id |-> Str(NewId)])
    /\ UNCHANGED <<db, buyer, product, order, route>>

create_buyer(payload) ==
    /\ db.available => TotalDocs < MaxDocs
    /\ IF ~db.available
       THEN /\ call' = Raised("create_buyer", payload, "error", "StoreError")
            /\ UNCHANGED <<buyer, nextId>>
       ELSE /\ buyer' = Insert(buyer, WithId([type |-> payload.type]))
            /\ nextId' = nextId + 1
            /\ call' = Ok("create_buyer", payload, [id |-> Str(NewId)])
    /\ UNCHANGED <<db, farmer, product, order, route>>

\* The value placed under "_id" in the lookup of line 108: the method
\* `dict.__init__`, reached through codec_options.document_class.
LookupFilterValue == [kind |-> "method"]

\* BSON encodes scalars, ObjectIds, lists and documents, nothing else.
BsonEncodable(v) ==
    v.kind \in {"str", "int", "float", "bool", "null", "ObjectId", "list", "dict"}

\* Line 108, evaluated left to right: db["farmer"], then
\* db.client.get_default_database() (which needs a default database in the
\* connection string), then find_one with the filter built from it.
FarmerLookup(d, uriHasDefault) ==
    IF ~d.available THEN "TypeError"
    ELSE IF ~uriHasDefault THEN "ConfigurationError"
    ELSE IF ~BsonEncodable(LookupFilterValue) THEN "InvalidDocument"
    ELSE "ok"

ProductDoc(payload) ==
    [farmer_id |-> payload.farmer_id, category |-> payload.category,
     price |-> payload.price, available_quantity |-> payload.available_quantity]

create_product(payload) ==
    \E uriHasDefault \in BOOLEAN :
        LET looked == FarmerLookup(db, uriHasDefault) IN
        /\ (ValidProduct(payload) /\ looked = "ok") => TotalDocs < MaxDocs
        /\ IF ~ValidProduct(payload)
           THEN /\ call' = Raised("create_product", payload, "ValidationError", "")
                /\ UNCHANGED <<product, nextId>>
           ELSE IF looked # "ok"
           THEN /\ call' = Raised("create_product", payload, "error", looked)
                /\ UNCHANGED <<product, nextId>>
           ELSE /\ product' = Insert(product, WithId(ProductDoc(payload)))
                /\ nextId' = nextId + 1
                /\ call' = Ok("create_product", payload, [id |-> Str(NewId)])
        /\ UNCHANGED <<db, farmer, buyer, order, route>>

OrderDoc(payload) ==
    [buyer_id |-> payload.buyer_id, items |-> payload.items,
     status |-> OrderStatus(payload)]

create_order(payload) ==
    /\ (ValidOrder(payload) /\ db.available) => TotalDocs < MaxDocs
    /\ IF ~ValidOrder(payload)
       THEN /\ call' = Raised("create_order", payload, "ValidationError", "")
            /\ UNCHANGED <<order, nextId>>
       ELSE IF ~db.available
       THEN /\ call' = Raised("create_order", payload, "error", "StoreError")
            /\ UNCHANGED <<order, nextId>>
       ELSE /\ order' = Insert(order, WithId(OrderDoc(payload)))
            /\ nextId' = nextId + 1
            /\ call' = Ok("create_order", payload, [id |-> Str(NewId)])
    /\ UNCHANGED <<db, farmer, buyer, product, route>>

RouteDoc(payload) ==
    [date |-> payload.date, cold_chain |-> RouteColdChain(payload)]

create_route(payload) ==
    /\ db.available => TotalDocs < MaxDocs
    /\ IF ~db.available
       THEN /\ call' = Raised("create_route", payload, "error", "StoreError")
            /\ UNCHANGED <<route, nextId>>
       ELSE /\ route' = Insert(route, WithId(RouteDoc(payload)))
            /\ nextId' = nextId + 1
            /\ call' = Ok("create_route", payload, [id |-> Str(NewId)])
    /\ UNCHANGED <<db, farmer, buyer, product, order>>

(* ---------------------------- list endpoints --------------------------- *)

\* The response of a get_documents call: the store must be available.
Listed(opname, args, coll, filt) ==
    IF ~db.available THEN Raised(opname, args, "error", "StoreError")
    ELSE Ok(opname, args, get_documents(coll, filt))

FarmersFilter(region) ==
    IF Truthy(region) THEN SetKey(EmptyFilter, "region", Eq(region[1]))
    ELSE EmptyFilter

list_farmers(region) ==
    /\ call' = Listed("list_farmers", [region |-> region], farmer,
                      FarmersFilter(region))
    /\ UNCHANGED <<db, farmer, buyer, product, order, route, nextId>>

BuyersFilter(type) ==
    IF Truthy(type) THEN SetKey(EmptyFilter, "type", Eq(type[1]))
    ELSE EmptyFilter

list_buyers(type) ==
    /\ call' = Listed("list_buyers", [type |-> type], buyer, BuyersFilter(type))
    /\ UNCHANGED <<db, farmer, buyer, product, order, route, nextId>>

\* [str(fid) for fid in farmer_ids], the farmers found by region.
RegionFarmerIds(farmers, region) ==
    LET found == Find(farmers, SetKey(EmptyFilter, "region", Eq(region)))
    IN  [i \in 1..Len(found) |-> Str(found[i]["_id"])]

\* A region lookup that leaves an earlier farmer_id clause in place.
ProductsFilterKeepingFarmer(farmer_id, category, region, farmers) ==
    LET f1 == IF Truthy(farmer_id)
              THEN SetKey(EmptyFilter, "farmer_id", Eq(farmer_id[1]))
              ELSE EmptyFilter
        f2 == IF Truthy(category)
              THEN SetKey(f1, "category", Eq(category[1]))
              ELSE f1
    IN  IF Truthy(region)
        THEN f2 @@ ("farmer_id" :> In(RegionFarmerIds(farmers, region[1])))
        ELSE f2

ProductsFilter(farmer_id, category, region, farmers) ==
    LET f1 == IF Truthy(farmer_id)
              THEN SetKey(EmptyFilter, "farmer_id", Eq(farmer_id[1]))
              ELSE EmptyFilter
        f2 == IF Truthy(category)
              THEN SetKey(f1, "category", Eq(category[1]))
              ELSE f1
    IN  IF Truthy(region)
        THEN SetKey(f2, "farmer_id", In(RegionFarmerIds(farmers, region[1])))
        ELSE f2

list_products(farmer_id, category, region) ==
    LET args == [farmer_id |-> farmer_id, category |-> category, region |-> region]
    IN  /\ call' = IF Truthy(region) /\ ~db.available
                   THEN Raised("list_products", args, "error", "TypeError")
                   ELSE Listed("list_products", args, product,
                               ProductsFilter(farmer_id, category, region, farmer))
        /\ UNCHANGED <<db, farmer, buyer, product, order, route, nextId>>

\* A status clause that starts the filter afresh.
OrdersFilterStatusOnly(buyer_id, status) ==
    LET f1 == IF Truthy(buyer_id)
              THEN SetKey(EmptyFilter, "buyer_id", Eq(buyer_id[1]))
              ELSE EmptyFilter
    IN  IF Truthy(status) THEN SetKey(EmptyFilter, "status", Eq(status[1])) ELSE f1

OrdersFilter(buyer_id, status) ==
    LET f1 == IF Truthy(buyer_id)
              THEN SetKey(EmptyFilter, "buyer_id", Eq(buyer_id[1]))
              ELSE EmptyFilter
    IN  IF Truthy(status) THEN SetKey(f1, "status", Eq(status[1])) ELSE f1

list_orders(buyer_id, status) ==
    /\ call' = Listed("list_orders", [buyer_id |-> buyer_id, status |-> status],
                      order, OrdersFilter(buyer_id, status))
    /\ UNCHANGED <<db, farmer, buyer, product, order, route, nextId>>

\* A cold_chain clause added on the parameter's truth value (`if cold_chain:`).
RoutesFilterOnTruth(date, cold_chain) ==
    LET f1 == IF Truthy(date)
              THEN SetKey(EmptyFilter, "date", Eq(date[1]))
              ELSE EmptyFilter
    IN  IF cold_chain = Some(TRUE)
        THEN SetKey(f1, "cold_chain", Eq(TRUE))
        ELSE f1

RoutesFilter(date, cold_chain) ==
    LET f1 == IF Truthy(date)
              THEN SetKey(EmptyFilter, "date", Eq(date[1]))
              ELSE EmptyFilter
    IN  IF IsNotNone(cold_chain)
        THEN SetKey(f1, "cold_chain", Eq(cold_chain[1]))
        ELSE f1

list_routes(date, cold_chain) ==
    /\ call' = Listed("list_routes", [date |-> date, cold_chain |-> cold_chain],
                      route, RoutesFilter(date, cold_chain))
    /\ UNCHANGED <<db, farmer, buyer, product, order, route, nextId>>

(* ------------------------- aggregation stages -------------------------- *)

\* {"$match": {field: v}}
MatchStage(docs, field, v) ==
    SelectSeq(docs, LAMBDA d : field \in DOMAIN d /\ d[field] = v)

\* {"$sum": "$field"}: documents without the field add nothing.
RECURSIVE SumField(_, _)
SumField(docs, field) ==
    IF docs = <<>> THEN 0
    ELSE (IF field \in DOMAIN Head(docs) THEN Head(docs)[field] ELSE 0)
         + SumField(Tail(docs), field)

\* A mean is kept exact, as the fraction num/den; null has den = 0.
Null == [num |-> 0, den |-> 0]
IsNull(a) == a.den = 0

\* {"$avg": "$field"}: the mean over the documents that have the field, null
\* when none has it.
\* A mean that divides by the number of all documents of the group.
AvgFieldOverAll(docs, field) ==
    IF docs = <<>> THEN Null
    ELSE [num |-> SumField(docs, field), den |-> Len(docs)]

AvgField(docs, field) ==
    LET having == SelectSeq(docs, LAMBDA d : field \in DOMAIN d)
    IN  IF having = <<>> THEN Null
        ELSE [num |-> SumField(having, field), den |-> Len(having)]

\* {"$sum": 1}
CountDocs(docs) == Len(docs)

\* BSON order on means: null sorts before every number.
AvgLeq(a, b) ==
    IF IsNull(a) THEN TRUE
    ELSE IF IsNull(b) THEN FALSE
    ELSE a.num * b.den <= b.num * a.den

\* {"$group": ...} emits its groups in no specified order, and the {"$sort": ...}
\* after it may place equal keys either way: every arrangement of the groups
\* that respects the sort key is a possible output.
Perms(S) ==
    {s \in [1..Cardinality(S) -> S] :
        \A i, j \in 1..Cardinality(S) : i # j => s[i] # s[j]}

\* {"$limit": n} with n >= 1
LimitStage(s, n) == SubSeq(s, 1, Min(n, Len(s)))

\* The server rejects {"$limit": n} unless n is positive.
LimitAccepted(n) == n >= 1

\* {"$unwind": "$items"}: one record per item, none for an empty or absent list.
RECURSIVE UnwindItems(_)
UnwindItems(docs) ==
    IF docs = <<>> THEN <<>>
    ELSE LET d == Head(docs)
             its == IF "items" \in DOMAIN d THEN d.items ELSE <<>>
         IN  [k \in 1..Len(its) |-> [d EXCEPT !.items = its[k]]]
             \o UnwindItems(Tail(docs))

(* -------------------------- analytics endpoints ------------------------ *)

\* The sort key taken in descending order.
PricingPriceGeq(a, b) == AvgLeq(b.avg_price, a.avg_price)

PricingPriceLeq(a, b) == AvgLeq(a.avg_price, b.avg_price)

PricingGroups(docs) ==
    {LET members == SelectSeq(docs, LAMBDA d : d.category = k)
     IN  ("_id" :> k) @@ [avg_price |-> AvgField(members, "price"),
                          count |-> CountDocs(members)]
     : k \in {docs[i].category : i \in 1..Len(docs)}}

\* {"$sort": {"avg_price": 1}}
PricingSort(groups) ==
    {s \in Perms(groups) :
        \A i \in 1..(Len(s) - 1) : PricingPriceLeq(s[i], s[i + 1])}

\* The pipeline of pricing_trends.
PricingPipeline(docs, category) ==
    LET matched == IF Truthy(category)
                   THEN MatchStage(docs, "category", category[1])
                   ELSE docs
    IN  PricingSort(PricingGroups(matched))

pricing_trends(category) ==
    /\ \E results \in (IF DbTruthy(db) THEN PricingPipeline(product, category)
                       ELSE {<<>>}) :
           call' = Ok("pricing_trends", [category |-> category], results)
    /\ UNCHANGED <<db, farmer, buyer, product, order, route, nextId>>

DemandOrdersGeq(a, b) == a.orders >= b.orders

\* Groups that count the distinct parent orders instead of the item records.
DemandGroupsByOrder(recs) ==
    {LET members == SelectSeq(recs, LAMBDA r : r.items.product_id = k)
         items == [i \in 1..Len(members) |-> members[i].items]
     IN  ("_id" :> k) @@
         [orders |-> Cardinality({members[i]["_id"] : i \in 1..Len(members)}),
          qty |-> SumField(items, "quantity")]
     : k \in {recs[i].items.product_id : i \in 1..Len(recs)}}

DemandGroups(recs) ==
    {LET members == SelectSeq(recs, LAMBDA r : r.items.product_id = k)
         items == [i \in 1..Len(members) |-> members[i].items]
     IN  ("_id" :> k) @@ [orders |-> CountDocs(members),
                          qty |-> SumField(items, "quantity")]
     : k \in {recs[i].items.product_id : i \in 1..Len(recs)}}

\* {"$sort": {"orders": -1}}
DemandSort(groups) ==
    {s \in Perms(groups) :
        \A i \in 1..(Len(s) - 1) : DemandOrdersGeq(s[i], s[i + 1])}

\* The pipeline of demand_forecast, for a limit the server accepts.
DemandPipeline(docs, limit) ==
    {LimitStage(s, limit) : s \in DemandSort(DemandGroups(UnwindItems(docs)))}

demand_forecast(limit) ==
    /\ IF ~DbTruthy(db)
       THEN call' = Ok("demand_forecast", [limit |-> limit], <<>>)
       ELSE IF ~LimitAccepted(limit)
       THEN call' = Raised("demand_forecast", [limit |-> limit], "error",
                           "OperationFailure")
       ELSE \E results \in DemandPipeline(order, limit) :
                call' = Ok("demand_forecast", [limit |-> limit], results)
    /\ UNCHANGED <<db, farmer, buyer, product, order, route, nextId>>

SupplyAvailableGeq(a, b) == a.available >= b.available

SupplyGroups(docs) ==
    {LET members == SelectSeq(docs, LAMBDA d : d.category = k)
     IN  ("_id" :> k) @@ [available |-> SumField(members, "available_quantity"),
                          items |-> CountDocs(members)]
     : k \in {docs[i].category : i \in 1..Len(docs)}}

\* {"$sort": {"available": -1}}
SupplySort(groups) ==
    {s \in Perms(groups) :
        \A i \in 1..(Len(s) - 1) : SupplyAvailableGeq(s[i], s[i + 1])}

SupplyPipeline(docs) == SupplySort(SupplyGroups(docs))

supply_overview ==
    /\ IF ~DbTruthy(db)
       THEN call' = Ok("supply_overview", <<>>, <<>>)
       ELSE \E results \in SupplyPipeline(product) :
                call' = Ok("supply_overview", <<>>, results)
    /\ UNCHANGED <<db, farmer, buyer, product, order, route, nextId>>

(* ---------------------------- specifications --------------------------- *)

\* The service over an empty store.
Init ==
    /\ db \in DbHandles
    /\ farmer = <<>> /\ buyer = <<>> /\ product = <<>>
    /\ order = <<>> /\ route = <<>>
    /\ nextId = 1
    /\ call = NoCall

Next ==
    \/ \E p \in FarmerPayloads : create_farmer(p)
    \/ \E p \in BuyerPayloads : create_buyer(p)
    \/ \E p \in ProductPayloads : create_product(p)
    \/ \E p \in OrderPayloads : create_order(p)
    \/ \E p \in RoutePayloads : create_route(p)
    \/ \E r \in RegionParams : list_farmers(r)
    \/ \E t \in TypeParams : list_buyers(t)
    \/ \E f \in FarmerIdParams, c \in CategoryParams, r \in RegionParams :
           list_products(f, c, r)
    \/ \E b \in BuyerIdParams, s \in StatusParams : list_orders(b, s)
    \/ \E d \in DateParams, c \in ColdChainParams : list_routes(d, c)
    \/ \E c \in CategoryParams : pricing_trends(c)
    \/ \E n \in LimitParams : demand_forecast(n)
    \/ supply_overview

Spec == Init /\ [][Next]_vars

\* Stored documents, numbered in insertion order from `first`.
Stored(bodies, first) ==
    [i \in 1..Len(bodies) |-> ("_id" :> ObjectId(first + i - 1)) @@ bodies[i]]

\* Product documents already in the store: the store is schemaless, so a
\* document may lack its price.
PricedBodies ==
    [farmer_id : {"1"}, category : {"veg", "fruit"}, price : 1..MaxPrice,
     available_quantity : {0, 1}]

UnpricedBodies ==
    [farmer_id : {"1"}, category : {"veg", "fruit"},
     available_quantity : {0, 1}]

OwnedBodies ==
    [farmer_id : {"1", "2"}, category : {"veg", "fruit"}, price : {1},
     available_quantity : {1}]

FarmerBodies == [region : {"north", "south"}]

\* The pricing and supply endpoints over a store that already holds products.
InitPricing ==
    /\ db \in DbHandles
    /\ farmer = <<>> /\ buyer = <<>> /\ order = <<>> /\ route = <<>>
    /\ call = NoCall
    /\ \E ps \in SeqsUpTo(PricedBodies \cup UnpricedBodies, MaxProducts) :
           product = Stored(ps, 1)
    /\ nextId = Len(product) + 1

NextPricing ==
    \/ \E c \in CategoryParams : pricing_trends(c)
    \/ supply_overview

SpecPricing == InitPricing /\ [][NextPricing]_vars

\* The product listing over a store that already holds farmers and products.
InitListing ==
    /\ db \in DbHandles
    /\ buyer = <<>> /\ order = <<>> /\ route = <<>>
    /\ call = NoCall
    /\ \E fs \in SeqsUpTo(FarmerBodies, MaxFarmers) :
           /\ farmer = Stored(fs, 1)
           /\ \E ps \in SeqsUpTo(OwnedBodies, MaxProducts) :
                  product = Stored(ps, Len(fs) + 1)
    /\ nextId = Len(farmer) + Len(product) + 1

NextListing ==
    \E f \in FarmerIdParams, c \in CategoryParams, r \in RegionParams :
        list_products(f, c, r)

SpecListing == InitListing /\ [][NextListing]_vars

\* Order documents already in the store (each passed validation on its way in).
ItemBodies == [product_id : {"p1", "p2"}, quantity : 1..MaxQty, price : {0}]

\* The items `all` shared out over n orders: item k belongs to order owner[k].
OrderBodiesOf(all, owner, n) ==
    [i \in 1..n |->
        LET mine == SelectSeq([k \in 1..Len(all) |-> k], LAMBDA k : owner[k] = i)
        IN  [buyer_id |-> "b1", status |-> "pending",
             items |-> [j \in 1..Len(mine) |-> all[mine[j]]]]]

\* At most MaxOrders orders holding at most MaxItems items between them.
InitDemand ==
    /\ db \in DbHandles
    /\ farmer = <<>> /\ buyer = <<>> /\ product = <<>> /\ route = <<>>
    /\ call = NoCall
    /\ \E n \in 0..MaxOrders, all \in SeqsUpTo(ItemBodies, MaxItems) :
           \E owner \in [1..Len(all) -> 1..n] :
               /\ \A k \in 1..(Len(all) - 1) : owner[k] <= owner[k + 1]
               /\ order = Stored(OrderBodiesOf(all, owner, n), 1)
    /\ nextId = Len(order) + 1

NextDemand == \E n \in LimitParams : demand_forecast(n)

SpecDemand == InitDemand /\ [][NextDemand]_vars

(* ------------------------------ properties ----------------------------- *)

\* A parameter that was supplied, and one supplied with a non-empty value.
Supplied(o) == o # None
NonEmpty(o) == o # None /\ o[1] # ""

RECURSIVE SumFn(_, _)
SumFn(S, f) ==
    IF S = {} THEN 0
    ELSE LET x == CHOOSE y \in S : TRUE IN f[x] + SumFn(S \ {x}, f)

Analytics == {"pricing_trends", "demand_forecast", "supply_overview"}

RelevantCollection(opname) == IF opname = "demand_forecast" THEN order ELSE product

\* C1: each of pricing_trends, demand_forecast and supply_overview returns an
\* empty sequence, never an error, when the store handle is unavailable and
\* when the store is available but the collection it reads is empty.
C1_AnalyticsDegradeToEmpty ==
    (/\ call.op \in Analytics
     /\ (~db.available \/ RelevantCollection(call.op) = <<>>))
    => (call.status = "ok" /\ call.value = <<>>)

\* C2: create_product with a field-valid Product (price = 0 included) succeeds
\* whether or not the referenced farmer exists: one insert into the product
\* collection, the new identifier returned, no lookup that can fail the call.
C2_CreateProductSucceeds ==
    (call.op = "create_product" /\ db.available
     /\ call.args.price >= 0 /\ call.args.available_quantity >= 0)
    => (/\ call.status = "ok"
        /\ \E i \in 1..Len(product) : Str(product[i]["_id"]) = call.value.id)

\* Whether product document p belongs to some farmer of region r.
OwnedInRegion(p, r) ==
    \E i \in 1..Len(farmer) :
        farmer[i].region = r /\ p.farmer_id = Str(farmer[i]["_id"])

ListingOf(keep(_)) ==
    /\ call.status = "ok"
    /\ Range(call.value) = {product[i] : i \in {j \in 1..Len(product) : keep(product[j])}}
    /\ Len(call.value) = Cardinality(Range(call.value))

\* C3 as stated: with any supplied region R, list_products returns exactly the
\* products (of the given category, when one is supplied) whose farmer_id
\* identifies a farmer of region R, whatever farmer_id was supplied.
C3_RegionListingAnySupplied ==
    (call.op = "list_products" /\ db.available /\ Supplied(call.args.region))
    => ListingOf(LAMBDA p :
           /\ OwnedInRegion(p, call.args.region[1])
           /\ Supplied(call.args.category) => p.category = call.args.category[1])

\* C3, amended: with a non-empty region R, list_products returns exactly the
\* products (of the given category, when a non-empty one is supplied) whose
\* farmer_id is the identifier string of a farmer of region R, whatever
\* farmer_id was supplied, and an empty sequence when no farmer has region R;
\* an empty-string region is treated as absent (the farmer_id filter stays).
C3_RegionListing ==
    (call.op = "list_products" /\ db.available)
    => IF NonEmpty(call.args.region)
       THEN ListingOf(LAMBDA p :
                /\ OwnedInRegion(p, call.args.region[1])
                /\ NonEmpty(call.args.category)
                       => p.category = call.args.category[1])
       ELSE ListingOf(LAMBDA p :
                /\ NonEmpty(call.args.farmer_id)
                       => p.farmer_id = call.args.farmer_id[1]
                /\ NonEmpty(call.args.category)
                       => p.category = call.args.category[1])

\* A region listing that overrode a farmer_id parameter and kept only part of
\* the collection.
C3_Witness ==
    /\ call.op = "list_products" /\ call.status = "ok"
    /\ NonEmpty(call.args.region) /\ NonEmpty(call.args.farmer_id)
    /\ call.value # <<>> /\ Len(call.value) < Len(product)
    /\ \E k \in 1..Len(call.value) :
           call.value[k].farmer_id # call.args.farmer_id[1]

\* C4: demand_forecast accepts every non-negative limit, and limit = 0 gives
\* an empty sequence, not an error, whatever the order collection holds.
C4_LimitZeroIsEmpty ==
    (call.op = "demand_forecast" /\ call.args.limit >= 0)
    => (call.status = "ok" /\ (call.args.limit = 0 => call.value = <<>>))

\* The item occurrences of the order collection, as (order, position) pairs.
ItemSlots ==
    UNION {{<<i, j>> : j \in 1..Len(order[i].items)} : i \in 1..Len(order)}
SlotItem(s) == order[s[1]].items[s[2]]
SlotsOf(pid) == {s \in ItemSlots : SlotItem(s).product_id = pid}
OrderedProductIds == {SlotItem(s).product_id : s \in ItemSlots}
Occurrences(pid) == Cardinality(SlotsOf(pid))
Quantity(pid) == SumFn(SlotsOf(pid), [s \in SlotsOf(pid) |-> SlotItem(s).quantity])

\* C5: for limit >= 1, demand_forecast returns the first `limit` entries of
\* the list with one entry per distinct product_id of any order item, `orders`
\* the number of item occurrences of that product_id, `qty` the sum of their
\* quantities, ordered descending by `orders`; empty orders add nothing.
C5_DemandForecast ==
    (call.op = "demand_forecast" /\ db.available /\ call.args.limit >= 1)
    => LET v == call.value
           ids == {v[k]["_id"] : k \in 1..Len(v)}
       IN  /\ call.status = "ok"
           /\ Len(v) = Min(call.args.limit, Cardinality(OrderedProductIds))
           /\ ids \subseteq OrderedProductIds
           /\ Cardinality(ids) = Len(v)
           /\ \A k \in 1..Len(v) :
                  /\ v[k].orders = Occurrences(v[k]["_id"])
                  /\ v[k].qty = Quantity(v[k]["_id"])
           /\ \A k \in 1..Len(v), l \in 1..Len(v) :
                  k < l => v[k].orders >= v[l].orders
           /\ \A pid \in OrderedProductIds \ ids :
                  \A k \in 1..Len(v) : v[k].orders >= Occurrences(pid)

\* A truncated forecast over an empty order and an order that names the same
\* product twice.
C5_Witness ==
    /\ call.op = "demand_forecast" /\ call.status = "ok" /\ db.available
    /\ call.args.limit = 1 /\ Len(call.value) = 1
    /\ Cardinality(OrderedProductIds) = 2
    /\ \E i \in 1..Len(order) : order[i].items = <<>>
    /\ \E i \in 1..Len(order) :
           /\ Len(order[i].items) = 2
           /\ order[i].items[1].product_id = order[i].items[2].product_id
    /\ call.value[1].orders = 2 /\ call.value[1].qty = 3

\* The products pricing_trends considers under a reading `given` of "the
\* category parameter is supplied", and their grouping by category.
Considered(given(_)) ==
    {i \in 1..Len(product) :
        given(call.args.category) => product[i].category = call.args.category[1]}
MembersOf(S, c) == {i \in S : product[i].category = c}
Priced(S) == {i \in S : "price" \in DOMAIN product[i]}
PriceSum(S) == SumFn(Priced(S), [i \in Priced(S) |-> product[i].price])

\* avg is the mean of the prices present among the documents S (null if none).
IsMeanOf(avg, S) ==
    IF Priced(S) = {} THEN avg.den = 0
    ELSE avg.den > 0 /\ avg.num * Cardinality(Priced(S)) = PriceSum(S) * avg.den

\* a is placed no later than b by an ascending sort on the mean.
MeanAscending(a, b) ==
    a.den = 0 \/ (b.den # 0 /\ a.num * b.den <= b.num * a.den)

PricingEntries(S, key) ==
    LET v == call.value IN
    /\ call.status = "ok"
    /\ \A k \in 1..Len(v) : DOMAIN v[k] = {key, "avg_price", "count"}
    /\ {v[k][key] : k \in 1..Len(v)} = {product[i].category : i \in S}
    /\ Len(v) = Cardinality({product[i].category : i \in S})
    /\ \A k \in 1..Len(v) :
           /\ v[k].count = Cardinality(MembersOf(S, v[k][key]))
           /\ IsMeanOf(v[k].avg_price, MembersOf(S, v[k][key]))
    /\ \A k \in 1..Len(v), l \in 1..Len(v) :
           k < l => MeanAscending(v[k].avg_price, v[l].avg_price)

\* C6 as stated: pricing_trends returns one entry {category, avg_price, count}
\* per distinct category among the products considered (all, or those of the
\* category parameter when it is supplied), avg_price the mean of the group's
\* prices, count its size, ascending by avg_price; empty when nothing matches.
C6_PricingEntriesNamedCategory ==
    (call.op = "pricing_trends" /\ db.available)
    => PricingEntries(Considered(Supplied), "category")

\* C6, amended: pricing_trends returns one entry {_id, avg_price, count} per
\* distinct category among the products considered (all when the category
\* parameter is absent or empty, else those of that category), _id the
\* category, avg_price the mean of the prices present in the group (null when
\* none is), count the group's size, ascending by avg_price with null first;
\* empty when nothing matches.
C6_PricingTrends ==
    (call.op = "pricing_trends" /\ db.available)
    => PricingEntries(Considered(NonEmpty), "_id")

\* Two groups in the answer, the second of two members, with different means.
C6_Witness ==
    /\ call.op = "pricing_trends" /\ call.status = "ok" /\ db.available
    /\ Len(call.value) = 2
    /\ call.value[2].count = 2
    /\ call.value[1].avg_price.den # 0
    /\ call.value[1].avg_price.num * call.value[2].avg_price.den
           < call.value[2].avg_price.num * call.value[1].avg_price.den
    /\ call.value[2].avg_price.num % call.value[2].avg_price.den # 0

HasUnpriced(S) == Priced(S) # S

\* C7 as stated: a product without a price is left out of its group's count
\* as well as of the price sum: count is the number of priced documents.
C7_CountOnlyPriced ==
    (call.op = "pricing_trends" /\ db.available /\ call.status = "ok")
    => \A k \in 1..Len(call.value) :
           call.value[k].count =
               Cardinality(Priced(MembersOf(Considered(NonEmpty), call.value[k]["_id"])))

\* C7, amended: a product without a price is left out of the sum and of the
\* divisor of its group's avg_price, and still counted in the group's count,
\* which is the number of all documents of the group.
C7_UnpricedCountedNotAveraged ==
    (call.op = "pricing_trends" /\ db.available /\ call.status = "ok")
    => \A k \in 1..Len(call.value) :
           LET g == MembersOf(Considered(NonEmpty), call.value[k]["_id"]) IN
           HasUnpriced(g) =>
               /\ call.value[k].count = Cardinality(g)
               /\ call.value[k].count > Cardinality(Priced(g))
               /\ IsMeanOf(call.value[k].avg_price, g)

\* A group holding a priced and an unpriced product.
C7_Witness ==
    /\ call.op = "pricing_trends" /\ call.status = "ok" /\ db.available
    /\ \E k \in 1..Len(call.value) :
           LET g == MembersOf(Considered(NonEmpty), call.value[k]["_id"]) IN
           /\ HasUnpriced(g) /\ Priced(g) # {}
           /\ call.value[k].count = 2
           /\ call.value[k].avg_price.den = 1

\* Route r has the date asked for (any date when none is asked for).
OnDate(r) == Supplied(call.args.date) => r.date = call.args.date[1]

\* C8: list_routes with cold_chain unset returns all routes (of the given
\* date, when one is given) whatever their cold_chain; with cold_chain=false
\* it returns only routes whose cold_chain is false, with cold_chain=true only
\* those whose cold_chain is true.
C8_ColdChainFilter ==
    (call.op = "list_routes" /\ db.available)
    => LET v == call.value
           cc == call.args.cold_chain
       IN  /\ call.status = "ok"
           /\ Range(v) \subseteq Range(route)
           /\ NonEmpty(call.args.date)
                  => \A k \in 1..Len(v) : v[k].date = call.args.date[1]
           /\ IF cc = None
              THEN /\ \A i \in 1..Len(route) : OnDate(route[i]) => route[i] \in Range(v)
                   /\ ~Supplied(call.args.date) => v = route
              ELSE /\ \A k \in 1..Len(v) : v[k].cold_chain = cc[1]
                   /\ \A i \in 1..Len(route) :
                          (route[i].cold_chain = cc[1] /\ OnDate(route[i]))
                              => route[i] \in Range(v)

\* cold_chain=false asked of a store holding a cold-chain route and another.
C8_Witness ==
    /\ call.op = "list_routes" /\ call.status = "ok"
    /\ call.args.cold_chain = Some(FALSE)
    /\ Len(call.value) = 1 /\ Len(route) = 2
    /\ \E i \in 1..Len(route) : route[i].cold_chain

StoredWithinBounds ==
    /\ \A i \in 1..Len(product) :
           product[i].price >= 0 /\ product[i].available_quantity >= 0
    /\ \A i \in 1..Len(order) : \A k \in 1..Len(order[i].items) :
           order[i].items[k].quantity > 0 /\ order[i].items[k].price >= 0

PayloadOutOfBounds(c) ==
    \/ /\ c.op = "create_product"
       /\ (c.args.price < 0 \/ c.args.available_quantity < 0)
    \/ /\ c.op = "create_order"
       /\ \E k \in 1..Len(c.args.items) :
              c.args.items[k].quantity <= 0 \/ c.args.items[k].price < 0

\* C9: after any sequence of creates every stored product has price >= 0 and
\* available_quantity >= 0 and every item of every stored order has
\* quantity > 0 and price >= 0; a create whose input breaks one of these
\* bounds fails with a validation error and leaves every collection unchanged.
C9_BoundsEnforcedOnCreate ==
    /\ [](StoredWithinBounds /\ (PayloadOutOfBounds(call) => call.status = "ValidationError"))
    /\ [][PayloadOutOfBounds(call') =>
              UNCHANGED <<farmer, buyer, product, order, route>>]_vars

\* An order is stored and a later create was turned down by validation.
C9_Witness ==
    /\ \E i \in 1..Len(order) : order[i].items # <<>>
    /\ call.op = "create_order" /\ call.status = "ValidationError"
    /\ \E k \in 1..Len(call.args.items) : call.args.items[k].quantity = 0

ListedBy(coll, keep(_)) ==
    /\ call.status = "ok"
    /\ call.value = SelectSeq(coll, keep)

\* The clause a parameter value o contributes on `field` under a reading
\* `given` of "supplied".
Clause(given(_), o, d, field) == given(o) => d[field] = o[1]

StringFilters(given(_)) ==
    /\ call.op = "list_farmers"
           => ListedBy(farmer, LAMBDA d : Clause(given, call.args.region, d, "region"))
    /\ call.op = "list_buyers"
           => ListedBy(buyer, LAMBDA d : Clause(given, call.args.type, d, "type"))
    /\ call.op = "list_orders"
           => ListedBy(order, LAMBDA d :
                  /\ Clause(given, call.args.buyer_id, d, "buyer_id")
                  /\ Clause(given, call.args.status, d, "status"))

\* C10 as stated: in list_farmers, list_buyers and list_orders every supplied
\* string parameter value contributes an equality clause and only an absent
\* parameter contributes none; a supplied value is never treated as absent.
C10_EverySuppliedValueFilters == db.available => StringFilters(Supplied)

\* C10, amended: in list_farmers, list_buyers and list_orders every supplied
\* non-empty parameter value v contributes an equality clause, so the result
\* is exactly the documents whose field equals v; an absent parameter and an
\* empty-string value both contribute no clause.
C10_NonEmptyValueFilters == db.available => StringFilters(NonEmpty)

\* Orders listed by buyer and status, keeping one of two stored orders.
C10_Witness ==
    /\ call.op = "list_orders" /\ call.status = "ok"
    /\ NonEmpty(call.args.buyer_id) /\ NonEmpty(call.args.status)
    /\ Len(call.value) = 1 /\ Len(order) = 2

====
